---- MODULE Spec2Model ----
(***************************************************************************)
(* Model of turbojpeg-sys/build.rs: the build script that first locates or *)
(* builds libturbojpeg (build_or_find_library) and then copies or          *)
(* generates the Rust bindings (generate_or_copy_bindings).                *)
(*                                                                         *)
(* Strings are sequences of one-character strings, so that the case        *)
(* folding of eq_ignore_ascii_case and the prefix computation of env are   *)
(* computed character by character.  An Option is a sequence of length at  *)
(* most one: None is << >> and Some(v) is <<v>>.                           *)
(*                                                                         *)
(* The process environment is an input.  Every name is read by at most one *)
(* call of env in a run, so the entries a call can consult are drawn when  *)
(* the call is made; 'environ' holds the entries drawn for the last call.  *)
(* The lines a call of env prints (the rerun-if-env-changed registrations  *)
(* and the set/unset diagnostics) are kept for the last call only, in      *)
(* 'env_out'; 'stdout' holds every other line build.rs prints, in order.   *)
(* Lines printed by the external crates (pkg-config, cmake, bindgen) are   *)
(* not part of build.rs and are not recorded.                              *)
(***************************************************************************)
EXTENDS Integers, Sequences, FiniteSets, TLC

VARIABLES
    pc,             \* the function the script is about to run, or "exit"
    features,       \* enabled cargo features (cfg!(feature = ...))
    TARGET,         \* value of the TARGET variable set by cargo
    environ,        \* environment entries consulted by the last call of env
    env_name,       \* name argument of the last call of env
    env_value,      \* value returned by the last call of env
    lib_dir,        \* local of find_explicit
    library,        \* Option<Library> held by main
    env_out,        \* lines printed by the last call of env
    stdout,         \* lines printed by build.rs outside env, in order
    calls,          \* external operations performed, in order
    out_file,       \* who wrote OUT_DIR/bindings.rs, or "absent"
    lib_strategy,   \* library strategy function that was called
    bind_strategy,  \* binding strategy function that was called
    exit,           \* "running", "ok", "error" or "panic"
    error,          \* head of the error message main returned
    clang_args,     \* arguments held by the bindgen builder
    bool_result     \* result of env_bool

vars == <<pc, features, TARGET, environ, env_name, env_value, env_out, lib_dir,
          library, stdout, calls, out_file, lib_strategy, bind_strategy,
          exit, error, clang_args, bool_result>>

-----------------------------------------------------------------------------
(* Bounds *)

NumPaths == 2       \* distinct directory paths the environment can name
MaxIncludes == 1    \* include paths reported by a pkg-config probe
MaxDefines == 1     \* preprocessor defines reported by a pkg-config probe

-----------------------------------------------------------------------------
(* Options and strings *)

None == << >>
Some(v) == <<v>>
IsSome(o) == Len(o) = 1
Unwrap(o) == o[1]
Opt(S) == {None} \cup {Some(v) : v \in S}

LowerLetters == <<"a","b","c","d","e","f","g","h","i","j","k","l","m","n","o","p","q","r","s","t","u","v","w","x","y","z">>
UpperLetters == <<"A","B","C","D","E","F","G","H","I","J","K","L","M","N","O","P","Q","R","S","T","U","V","W","X","Y","Z">>

\* 'A'..'Z' -> 'a'..'z' and back; every other character maps to itself.
LowerOf == [c \in {UpperLetters[i] : i \in 1..26} |->
              LowerLetters[CHOOSE i \in 1..26 : UpperLetters[i] = c]]
UpperOf == [c \in {LowerLetters[i] : i \in 1..26} |->
              UpperLetters[CHOOSE i \in 1..26 : LowerLetters[i] = c]]

to_ascii_lowercase(c) == IF c \in DOMAIN LowerOf THEN LowerOf[c] ELSE c

to_ascii_uppercase(c) == IF c \in DOMAIN UpperOf THEN UpperOf[c] ELSE c

\* Faulty variant: the comparison is case sensitive.
eq_case_sensitive(a, b) == a = b

eq_ignore_ascii_case(a, b) ==
    /\ Len(a) = Len(b)
    /\ \A i \in 1..Len(a) : to_ascii_lowercase(a[i]) = to_ascii_lowercase(b[i])

to_uppercase(s) == [i \in 1..Len(s) |-> to_ascii_uppercase(s[i])]

replace(s, from, to) == [i \in 1..Len(s) |-> IF s[i] = from THEN to ELSE s[i]]

-----------------------------------------------------------------------------
(* Names and values *)

TURBOJPEG_SOURCE == <<"T","U","R","B","O","J","P","E","G","_","S","O","U","R","C","E">>
TURBOJPEG_BINDING == <<"T","U","R","B","O","J","P","E","G","_","B","I","N","D","I","N","G">>
TURBOJPEG_LIB_DIR == <<"T","U","R","B","O","J","P","E","G","_","L","I","B","_","D","I","R">>
TURBOJPEG_LIB_PATH == <<"T","U","R","B","O","J","P","E","G","_","L","I","B","_","P","A","T","H">>
TURBOJPEG_INCLUDE_DIR == <<"T","U","R","B","O","J","P","E","G","_","I","N","C","L","U","D","E","_","D","I","R">>
TURBOJPEG_INCLUDE_PATH == <<"T","U","R","B","O","J","P","E","G","_","I","N","C","L","U","D","E","_","P","A","T","H">>

s_vendor == <<"v","e","n","d","o","r">>
s_pkg_config == <<"p","k","g","-","c","o","n","f","i","g">>
s_pkgconfig == <<"p","k","g","c","o","n","f","i","g">>
s_pkgconf == <<"p","k","g","c","o","n","f">>
s_explicit == <<"e","x","p","l","i","c","i","t">>
s_pregenerated == <<"p","r","e","g","e","n","e","r","a","t","e","d">>
s_bindgen == <<"b","i","n","d","g","e","n">>

TargetLinux == <<"x","8","6","_","6","4","-","u","n","k","n","o","w","n","-","l","i","n","u","x","-","g","n","u">>
TargetWasi == <<"w","a","s","m","3","2","-","w","a","s","i">>
Targets == {TargetLinux, TargetWasi}

\* The variable prefix cargo users write for each target.
PrefixLinux == <<"X","8","6","_","6","4","_","U","N","K","N","O","W","N","_","L","I","N","U","X","_","G","N","U">>
PrefixWasi == <<"W","A","S","M","3","2","_","W","A","S","I">>
DocumentedPrefix(t) == IF t = TargetLinux THEN PrefixLinux ELSE PrefixWasi

Decoy == <<"d","e","c","o","y">>

SourceValues ==
    { s_vendor, <<"V","e","n","d","o","r">>,
      s_pkg_config, s_pkgconfig, <<"P","K","G","C","O","N","F">>,
      s_explicit, <<"E","X","P","L","I","C","I","T">>,
      << >>, <<"s","y","s","t","e","m">>, <<"p","k","g","_","c","o","n","f","i","g">> }

BindingValues ==
    { s_pregenerated, <<"P","r","e","G","e","n","e","r","a","t","e","d">>,
      s_bindgen, <<"B","I","N","D","G","E","N">>,
      << >>, <<"n","o","n","e">> }

PathChars == <<"x","y","z","w">>
Paths == { <<"/", PathChars[i]>> : i \in 1..NumPaths }

AllFeatures == {"cmake", "pkg-config", "bindgen"}

\* The environment entries a call env(name) can consult when the build
\* targets t: the variable under the documented prefix holds pv, the bare
\* variable holds bv, and the variables under the prefix of the other target
\* and under the unnormalised target names hold a value of their own.
EnvNames(name) ==
    {name} \cup { DocumentedPrefix(t) \o <<"_">> \o name : t \in Targets }
           \cup { t \o <<"_">> \o name : t \in Targets }

MkEnviron(t, name, pv, bv) ==
    [n \in EnvNames(name) |->
        IF n = DocumentedPrefix(t) \o <<"_">> \o name THEN pv
        ELSE IF n = name THEN bv
        ELSE Some(Decoy)]

Environs(t, name, values) ==
    { MkEnviron(t, name, pv, bv) : pv \in Opt(values), bv \in Opt(values) }

-----------------------------------------------------------------------------
(* Environment accessor *)

var_os(e, name) == IF name \in DOMAIN e THEN e[name] ELSE None

env_inner(e, name) ==
    [ value |-> var_os(e, name),
      out   |-> << <<"cargo:rerun-if-env-changed", name>>,
                   <<"diag", name, var_os(e, name)>> >> ]

\* Faulty variant: the dashes of the target are kept.
prefix_no_replace(target) == to_uppercase(target)

prefix(target) == replace(to_uppercase(target), "-", "_")

prefixed(target, name) == prefix(target) \o <<"_">> \o name

env(e, target, name) ==
    LET p == env_inner(e, prefixed(target, name))
    IN  IF IsSome(p.value)
        THEN p
        ELSE LET b == env_inner(e, name)
             IN  [ value |-> b.value, out |-> p.out \o b.out ]

env_path(e, target, name) == env(e, target, name)

TruthyWords == << << >>, <<"1">>, <<"y","e","s">>, <<"t","r","u","e">>, <<"o","n">> >>
FalsyWords == << <<"0">>, <<"n","o">>, <<"f","a","l","s","e">>, <<"o","f","f">> >>

\* Ok(Some(true)), Ok(Some(false)), Ok(None) or Err naming the variable.
env_bool(e, target, name) ==
    LET r == env(e, target, name)
    IN  IF IsSome(r.value)
        THEN IF \E i \in 1..Len(TruthyWords) :
                    eq_ignore_ascii_case(Unwrap(r.value), TruthyWords[i])
             THEN [ok |-> TRUE, value |-> Some(TRUE), out |-> r.out]
             ELSE IF \E i \in 1..Len(FalsyWords) :
                    eq_ignore_ascii_case(Unwrap(r.value), FalsyWords[i])
             THEN [ok |-> TRUE, value |-> Some(FALSE), out |-> r.out]
             ELSE [ok |-> FALSE, value |-> None, out |-> r.out,
                   err |-> <<"Env variable has value, expected empty or boolean", name, Unwrap(r.value)>>]
        ELSE [ok |-> TRUE, value |-> None, out |-> r.out]

-----------------------------------------------------------------------------
(* Strategy selection *)

\* Faulty variant: without a selector the pkg-config probe is preferred to the
\* vendor build.
source_choice_pkg_first(source, feats) ==
    IF IsSome(source)
    THEN IF eq_ignore_ascii_case(Unwrap(source), s_vendor) THEN "build_vendor"
         ELSE IF \/ eq_ignore_ascii_case(Unwrap(source), s_pkg_config)
                 \/ eq_ignore_ascii_case(Unwrap(source), s_pkgconfig)
                 \/ eq_ignore_ascii_case(Unwrap(source), s_pkgconf)
              THEN "find_pkg_config"
         ELSE IF eq_ignore_ascii_case(Unwrap(source), s_explicit) THEN "find_explicit"
         ELSE "bail"
    ELSE IF "pkg-config" \in feats THEN "find_pkg_config"
         ELSE IF "cmake" \in feats THEN "build_vendor"
         ELSE "find_explicit"

\* Faulty variant: an unknown selector value is treated like an unset selector.
source_choice_unknown_default(source, feats) ==
    IF IsSome(source) /\ eq_ignore_ascii_case(Unwrap(source), s_vendor) THEN "build_vendor"
    ELSE IF IsSome(source) /\ ( \/ eq_ignore_ascii_case(Unwrap(source), s_pkg_config)
                                \/ eq_ignore_ascii_case(Unwrap(source), s_pkgconfig)
                                \/ eq_ignore_ascii_case(Unwrap(source), s_pkgconf) )
         THEN "find_pkg_config"
    ELSE IF IsSome(source) /\ eq_ignore_ascii_case(Unwrap(source), s_explicit) THEN "find_explicit"
    ELSE IF "cmake" \in feats THEN "build_vendor"
    ELSE IF "pkg-config" \in feats THEN "find_pkg_config"
    ELSE "find_explicit"

\* The function build_or_find_library calls, or "bail".
source_choice(source, feats) ==
    IF IsSome(source)
    THEN IF eq_ignore_ascii_case(Unwrap(source), s_vendor) THEN "build_vendor"
         ELSE IF \/ eq_ignore_ascii_case(Unwrap(source), s_pkg_config)
                 \/ eq_ignore_ascii_case(Unwrap(source), s_pkgconfig)
                 \/ eq_ignore_ascii_case(Unwrap(source), s_pkgconf)
              THEN "find_pkg_config"
         ELSE IF eq_ignore_ascii_case(Unwrap(source), s_explicit) THEN "find_explicit"
         ELSE "bail"
    ELSE IF "cmake" \in feats THEN "build_vendor"
         ELSE IF "pkg-config" \in feats THEN "find_pkg_config"
         ELSE "find_explicit"

\* Faulty variant: 'bindgen' is honoured only when the feature is enabled.
binding_choice_needs_flag(binding, feats) ==
    IF IsSome(binding)
    THEN IF eq_ignore_ascii_case(Unwrap(binding), s_pregenerated) THEN "copy_pregenerated_bindings"
         ELSE IF eq_ignore_ascii_case(Unwrap(binding), s_bindgen)
              THEN IF "bindgen" \in feats THEN "generate_bindings"
                                          ELSE "copy_pregenerated_bindings"
         ELSE "bail"
    ELSE IF "bindgen" \in feats THEN "generate_bindings"
         ELSE "copy_pregenerated_bindings"

\* The function generate_or_copy_bindings calls, or "bail".
binding_choice(binding, feats) ==
    IF IsSome(binding)
    THEN IF eq_ignore_ascii_case(Unwrap(binding), s_pregenerated) THEN "copy_pregenerated_bindings"
         ELSE IF eq_ignore_ascii_case(Unwrap(binding), s_bindgen) THEN "generate_bindings"
         ELSE "bail"
    ELSE IF "bindgen" \in feats THEN "generate_bindings"
         ELSE "copy_pregenerated_bindings"

-----------------------------------------------------------------------------
(* The script *)

Init ==
    /\ pc = "main"
    /\ features \in SUBSET AllFeatures
    /\ TARGET \in Targets
    /\ environ = << >>
    /\ env_name = << >>
    /\ env_value = None
    /\ env_out = << >>
    /\ lib_dir = None
    /\ library = None
    /\ stdout = << >>
    /\ calls = << >>
    /\ out_file = "absent"
    /\ lib_strategy = "none"
    /\ bind_strategy = "none"
    /\ exit = "running"
    /\ error = ""
    /\ clang_args = << >>
    /\ bool_result = None

\* Faulty variant: the error is recorded and the script carries on with the binding
\* stage.
Fail_and_continue(msg) ==
    /\ pc' = "generate_or_copy_bindings"
    /\ exit' = exit
    /\ error' = msg

\* '?' in main: the error is returned and the process exits.
Fail(msg) ==
    /\ pc' = "exit"
    /\ exit' = "error"
    /\ error' = msg

Panic(msg) ==
    /\ pc' = "exit"
    /\ exit' = "panic"
    /\ error' = msg

main ==
    /\ pc = "main"
    /\ stdout' = Append(stdout, <<"cargo:rerun-if-changed", "build.rs">>)
    /\ pc' = "build_or_find_library"
    /\ UNCHANGED <<features, TARGET, environ, env_name, env_value, env_out, lib_dir,
                   library, calls, out_file, lib_strategy, bind_strategy,
                   exit, error, clang_args, bool_result>>

build_or_find_library ==
    /\ pc = "build_or_find_library"
    /\ \E e \in Environs(TARGET, TURBOJPEG_SOURCE, SourceValues) :
         LET source == env(e, TARGET, TURBOJPEG_SOURCE)
             choice == source_choice(source.value, features)
         IN  /\ environ' = e
             /\ env_name' = TURBOJPEG_SOURCE
             /\ env_value' = source.value
             /\ env_out' = source.out
             /\ IF choice = "bail"
                THEN /\ Fail("Unknown value of TURBOJPEG_SOURCE, supported values are: 'vendor', 'pkg-config', 'explicit'")
                     /\ UNCHANGED lib_strategy
                ELSE /\ pc' = choice
                     /\ lib_strategy' = choice
                     /\ UNCHANGED <<exit, error>>
    /\ UNCHANGED <<features, TARGET, lib_dir, library, stdout, calls, out_file,
                   bind_strategy, clang_args, bool_result>>

\* Library { include_paths, defines }
Library(include_paths, defines) ==
    [ include_paths |-> include_paths, defines |-> defines ]

NoDefines == [d \in {} |-> None]

\* OUT_DIR, set by cargo; the cmake crate installs into it.
OutDir == <<"/","o","u","t">>

SeqsUpTo(S, n) == UNION { [1..k -> S] : k \in 0..n }

DefineNameSeq == <<"HAVE_A", "HAVE_B", "HAVE_C">>
DefineNames == { DefineNameSeq[i] : i \in 1..MaxDefines }

\* Directories a pkg-config file of libturbojpeg can name.
ProbePaths == { <<"/","u","s","r">>, <<"/","o","p","t">> }

\* What pkg_config::Config::probe can report for libturbojpeg.
ProbeResults ==
    { Library(ip, df) :
        ip \in SeqsUpTo(ProbePaths, MaxIncludes),
        df \in UNION { [S -> Opt({<<"1">>})] : S \in SUBSET DefineNames } }

\* build_vendor as compiled with the 'cmake' feature.
build_vendor_cmake ==
    \E outcome \in {"built", "build panicked", "manifest dir unreadable"} :
      CASE outcome = "manifest dir unreadable" ->
             /\ stdout' = Append(stdout, <<"info", "Building turbojpeg from source">>)
             /\ Fail("environment variable CARGO_MANIFEST_DIR not readable")
             /\ UNCHANGED <<calls, library>>
        [] outcome = "build panicked" ->
             /\ stdout' = Append(stdout, <<"info", "Building turbojpeg from source">>)
             /\ calls' = Append(calls, "cmake")
             /\ Panic("cmake build failed")
             /\ UNCHANGED library
        [] outcome = "built" ->
             /\ calls' = Append(calls, "cmake")
             /\ stdout' = stdout \o
                  << <<"info", "Building turbojpeg from source">>,
                     <<"cargo:rustc-link-search=native", OutDir \o <<"/","l","i","b">> >>,
                     <<"cargo:rustc-link-lib=static", "turbojpeg">> >>
             /\ library' = Some(Library(<< OutDir \o <<"/","i","n","c","l","u","d","e">> >>, NoDefines))
             /\ pc' = "generate_or_copy_bindings"
             /\ UNCHANGED <<exit, error>>

\* build_vendor as compiled without the 'cmake' feature.
build_vendor_no_cmake ==
    /\ Fail("Trying to build turbojpeg from source, but the 'cmake' feature is disabled.")
    /\ UNCHANGED <<stdout, calls, library>>

build_vendor ==
    /\ pc = "build_vendor"
    /\ IF "cmake" \in features THEN build_vendor_cmake ELSE build_vendor_no_cmake
    /\ UNCHANGED <<features, TARGET, environ, env_name, env_value, env_out, lib_dir,
                   out_file, lib_strategy, bind_strategy, clang_args, bool_result>>

\* Faulty variant: a failed probe falls back to the vendor build.
find_pkg_config_probe_fallback ==
    /\ stdout' = Append(stdout, <<"info", "Using pkg-config to find libturbojpeg">>)
    /\ calls' = Append(calls, "pkg-config")
    /\ \/ /\ pc' = "build_vendor"
          /\ UNCHANGED <<library, exit, error>>
       \/ \E lib \in ProbeResults :
            /\ library' = Some(lib)
            /\ pc' = "generate_or_copy_bindings"
            /\ UNCHANGED <<exit, error>>

\* find_pkg_config as compiled with the 'pkg-config' feature.
find_pkg_config_enabled ==
    /\ stdout' = Append(stdout, <<"info", "Using pkg-config to find libturbojpeg">>)
    /\ calls' = Append(calls, "pkg-config")
    /\ \/ /\ Fail("could not find turbojpeg using pkg-config")
          /\ UNCHANGED library
       \/ \E lib \in ProbeResults :
            /\ library' = Some(lib)
            /\ pc' = "generate_or_copy_bindings"
            /\ UNCHANGED <<exit, error>>

\* Faulty variant: without the feature the explicit strategy is tried instead.
find_pkg_config_disabled_fallback ==
    /\ pc' = "find_explicit"
    /\ UNCHANGED <<stdout, calls, library, exit, error>>

\* find_pkg_config as compiled without the 'pkg-config' feature.
find_pkg_config_disabled ==
    /\ Fail("Trying to find turbojpeg using pkg-config, but the 'pkg-config' feature is disabled.")
    /\ UNCHANGED <<stdout, calls, library>>

find_pkg_config ==
    /\ pc = "find_pkg_config"
    /\ IF "pkg-config" \in features THEN find_pkg_config_enabled ELSE find_pkg_config_disabled
    /\ UNCHANGED <<features, TARGET, environ, env_name, env_value, env_out, lib_dir,
                   out_file, lib_strategy, bind_strategy, clang_args, bool_result>>

\* Faulty variant: both lookups carry the message of the library directory.
explicit_context_same(name) ==
    "TURBOJPEG_SOURCE is set to 'explicit', but TURBOJPEG_LIB_DIR is not set"

\* The .context(..) message of the lookup that ends with the alias 'name'.
explicit_context(name) ==
    IF name = TURBOJPEG_LIB_PATH
    THEN "TURBOJPEG_SOURCE is set to 'explicit', but TURBOJPEG_LIB_DIR is not set"
    ELSE "TURBOJPEG_SOURCE is set to 'explicit', but TURBOJPEG_INCLUDE_DIR is not set"

\* Faulty variant: the link-search directive names the include directory.
find_explicit_return_swapped(libdir, include_dir) ==
    /\ stdout' = stdout \o
         << <<"cargo:rustc-link-search=native", include_dir>>,
            <<"cargo:rustc-link-lib=static", "turbojpeg">> >>
    /\ library' = Some(Library(<<include_dir>>, NoDefines))
    /\ pc' = "generate_or_copy_bindings"
    /\ UNCHANGED <<exit, error>>

\* The tail of find_explicit once both directories are known.
find_explicit_return(libdir, include_dir) ==
    /\ stdout' = stdout \o
         << <<"cargo:rustc-link-search=native", libdir>>,
            <<"cargo:rustc-link-lib=static", "turbojpeg">> >>
    /\ library' = Some(Library(<<include_dir>>, NoDefines))
    /\ pc' = "generate_or_copy_bindings"
    /\ UNCHANGED <<exit, error>>

\* find_explicit up to env_path("TURBOJPEG_LIB_DIR")
find_explicit ==
    /\ pc = "find_explicit"
    /\ \E e \in Environs(TARGET, TURBOJPEG_LIB_DIR, Paths) :
         LET r == env_path(e, TARGET, TURBOJPEG_LIB_DIR)
         IN  /\ environ' = e
             /\ env_name' = TURBOJPEG_LIB_DIR
             /\ env_value' = r.value
             /\ env_out' = r.out
             /\ stdout' = Append(stdout,
                  <<"info", "Using TURBOJPEG_LIB_DIR and TURBOJPEG_INCLUDE_DIR to find turbojpeg">>)
             /\ lib_dir' = r.value
             /\ pc' = IF IsSome(r.value) THEN "find_explicit_include_dir"
                                         ELSE "find_explicit_lib_path"
    /\ UNCHANGED <<features, TARGET, library, calls, out_file, lib_strategy,
                   bind_strategy, exit, error, clang_args, bool_result>>

\* .or_else(|| env_path("TURBOJPEG_LIB_PATH")).context(..)?
find_explicit_lib_path ==
    /\ pc = "find_explicit_lib_path"
    /\ \E e \in Environs(TARGET, TURBOJPEG_LIB_PATH, Paths) :
         LET r == env_path(e, TARGET, TURBOJPEG_LIB_PATH)
         IN  /\ environ' = e
             /\ env_name' = TURBOJPEG_LIB_PATH
             /\ env_value' = r.value
             /\ env_out' = r.out
             /\ lib_dir' = r.value
             /\ IF IsSome(r.value)
                THEN /\ pc' = "find_explicit_include_dir"
                     /\ UNCHANGED <<exit, error>>
                ELSE Fail(explicit_context(TURBOJPEG_LIB_PATH))
    /\ UNCHANGED <<features, TARGET, library, stdout, calls, out_file,
                   lib_strategy, bind_strategy, clang_args, bool_result>>

\* env_path("TURBOJPEG_INCLUDE_DIR")
find_explicit_include_dir ==
    /\ pc = "find_explicit_include_dir"
    /\ \E e \in Environs(TARGET, TURBOJPEG_INCLUDE_DIR, Paths) :
         LET r == env_path(e, TARGET, TURBOJPEG_INCLUDE_DIR)
         IN  /\ environ' = e
             /\ env_name' = TURBOJPEG_INCLUDE_DIR
             /\ env_value' = r.value
             /\ env_out' = r.out
             /\ IF IsSome(r.value)
                THEN find_explicit_return(Unwrap(lib_dir), Unwrap(r.value))
                ELSE /\ pc' = "find_explicit_include_path"
                     /\ UNCHANGED <<library, stdout, exit, error>>
    /\ UNCHANGED <<features, TARGET, lib_dir, calls, out_file, lib_strategy,
                   bind_strategy, clang_args, bool_result>>

\* .or_else(|| env_path("TURBOJPEG_INCLUDE_PATH")).context(..)? and the rest
find_explicit_include_path ==
    /\ pc = "find_explicit_include_path"
    /\ \E e \in Environs(TARGET, TURBOJPEG_INCLUDE_PATH, Paths) :
         LET r == env_path(e, TARGET, TURBOJPEG_INCLUDE_PATH)
         IN  /\ environ' = e
             /\ env_name' = TURBOJPEG_INCLUDE_PATH
             /\ env_value' = r.value
             /\ env_out' = r.out
             /\ IF IsSome(r.value)
                THEN find_explicit_return(Unwrap(lib_dir), Unwrap(r.value))
                ELSE /\ Fail(explicit_context(TURBOJPEG_INCLUDE_PATH))
                     /\ UNCHANGED <<library, stdout>>
    /\ UNCHANGED <<features, TARGET, lib_dir, calls, out_file, lib_strategy,
                   bind_strategy, clang_args, bool_result>>

\* generate_or_copy_bindings, returning Err when the selector is unknown.
generate_or_copy_bindings ==
    /\ pc = "generate_or_copy_bindings"
    /\ \E e \in Environs(TARGET, TURBOJPEG_BINDING, BindingValues) :
         LET binding == env(e, TARGET, TURBOJPEG_BINDING)
             choice == binding_choice(binding.value, features)
         IN  /\ environ' = e
             /\ env_name' = TURBOJPEG_BINDING
             /\ env_value' = binding.value
             /\ env_out' = binding.out
             /\ IF choice = "bail"
                THEN /\ Fail("Unknown value of TURBOJPEG_BINDING, supported values are: 'pregenerated', 'bindgen'")
                     /\ UNCHANGED bind_strategy
                ELSE /\ pc' = choice
                     /\ bind_strategy' = choice
                     /\ UNCHANGED <<exit, error>>
    /\ UNCHANGED <<features, TARGET, lib_dir, library, stdout, calls, out_file,
                   lib_strategy, clang_args, bool_result>>

copy_pregenerated_bindings ==
    /\ pc = "copy_pregenerated_bindings"
    /\ calls' = Append(calls, "copy")
    /\ \/ /\ stdout' = Append(stdout, <<"info", "Using pregenerated bindings">>)
          /\ Fail("fs::copy failed")
          /\ UNCHANGED out_file
       \/ /\ stdout' = stdout \o
               << <<"info", "Using pregenerated bindings">>,
                  <<"cargo:rerun-if-changed", "bindings.rs">> >>
          /\ out_file' = "pregenerated"
          /\ pc' = "exit"
          /\ exit' = "ok"
          /\ UNCHANGED error
    /\ UNCHANGED <<features, TARGET, environ, env_name, env_value, env_out, lib_dir,
                   library, lib_strategy, bind_strategy, clang_args, bool_result>>

Perms(S) ==
    { f \in [1..Cardinality(S) -> S] : \A i, j \in 1..Cardinality(S) : f[i] = f[j] => i = j }

\* The clang arguments the builder holds when generate() is called; 'order'
\* is the order in which the HashMap iteration visits the defines.
builder_args(target, lib, order) ==
    << <<"-target", target>> >>
    \o [i \in 1..Len(lib.include_paths) |-> <<"-I", lib.include_paths[i]>>]
    \o [i \in 1..Len(order) |-> <<"-D", order[i], lib.defines[order[i]]>>]

\* generate_bindings as compiled with the 'bindgen' feature.
generate_bindings_enabled ==
    LET lib == Unwrap(library)
        printed == << <<"info", "Generating bindings using bindgen">> >>
                   \o [i \in 1..Len(lib.include_paths) |->
                         <<"cargo:rerun-if-changed", lib.include_paths[i]>>]
    IN  /\ \E order \in Perms(DOMAIN lib.defines) :
             clang_args' = builder_args(TARGET, lib, order)
        /\ calls' = Append(calls, "bindgen")
        /\ \/ /\ stdout' = stdout \o printed
              /\ Fail("could not generate bindings")
              /\ UNCHANGED out_file
           \/ /\ stdout' = stdout \o printed
              /\ Fail("could not write bindings to OUT_DIR")
              /\ UNCHANGED out_file
           \/ /\ stdout' = stdout \o printed
                    \o << <<"info", "Generated bindings are stored in OUT_DIR/bindings.rs">> >>
              /\ out_file' = "generated"
              /\ pc' = "exit"
              /\ exit' = "ok"
              /\ UNCHANGED error

\* generate_bindings as compiled without the 'bindgen' feature.
generate_bindings_disabled ==
    /\ Fail("Trying to build bindings with bindgen, but the 'bindgen' feature is disabled.")
    /\ UNCHANGED <<stdout, calls, out_file, clang_args>>

generate_bindings ==
    /\ pc = "generate_bindings"
    /\ IF "bindgen" \in features THEN generate_bindings_enabled ELSE generate_bindings_disabled
    /\ UNCHANGED <<features, TARGET, environ, env_name, env_value, env_out, lib_dir,
                   library, lib_strategy, bind_strategy, bool_result>>

Next ==
    \/ main
    \/ build_or_find_library
    \/ build_vendor
    \/ find_pkg_config
    \/ find_explicit
    \/ find_explicit_lib_path
    \/ find_explicit_include_dir
    \/ find_explicit_include_path
    \/ generate_or_copy_bindings
    \/ copy_pregenerated_bindings
    \/ generate_bindings


Spec == Init /\ [][Next]_vars

-----------------------------------------------------------------------------
(* env_bool, which main never calls, applied to every drawn environment *)

BoolNames == {TURBOJPEG_SOURCE, TURBOJPEG_BINDING}

BoolValues ==
    { << >>, <<"1">>, <<"y","e","s">>, <<"t","r","u","e">>, <<"o","n">>,
      <<"0">>, <<"n","o">>, <<"f","a","l","s","e">>, <<"o","f","f">>,
      <<"T","R","U","E">>, <<"O","N">>, <<"Y","e","s">>,
      <<"O","f","f">>, <<"F","a","l","s","E">>, <<"N","O">>,
      <<"m","a","y","b","e">>, <<"2">>, <<"y">>, <<"o","n","n">>,
      <<"t","r","u">>, <<"0","0">>, <<" ">> }

InitBool ==
    /\ pc = "env_bool"
    /\ features \in SUBSET AllFeatures
    /\ TARGET \in Targets
    /\ environ = << >>
    /\ env_name = << >>
    /\ env_value = None
    /\ env_out = << >>
    /\ lib_dir = None
    /\ library = None
    /\ stdout = << >>
    /\ calls = << >>
    /\ out_file = "absent"
    /\ lib_strategy = "none"
    /\ bind_strategy = "none"
    /\ exit = "running"
    /\ error = ""
    /\ clang_args = << >>
    /\ bool_result = None

call_env_bool ==
    /\ pc = "env_bool"
    /\ \E name \in BoolNames :
         \E e \in Environs(TARGET, name, BoolValues) :
           LET r == env_bool(e, TARGET, name)
           IN  /\ environ' = e
               /\ env_name' = name
               /\ env_value' = env(e, TARGET, name).value
               /\ env_out' = r.out
               /\ bool_result' = Some([k \in DOMAIN r \ {"out"} |-> r[k]])
               /\ pc' = "exit"
               /\ exit' = IF r.ok THEN "ok" ELSE "error"
               /\ error' = IF r.ok THEN "" ELSE r.err[1]
    /\ UNCHANGED <<features, TARGET, lib_dir, library, stdout, calls, out_file,
                   lib_strategy, bind_strategy, clang_args>>

NextBool == call_env_bool

SpecBool == InitBool /\ [][NextBool]_vars

-----------------------------------------------------------------------------
(* Properties *)

\* The variable names as the documentation spells them, and the value a
\* lookup of 'name' is documented to yield in the drawn environment.
DocName(name) == DocumentedPrefix(TARGET) \o <<"_">> \o name
PrefixedEntry(name) == environ[DocName(name)]
BareEntry(name) == environ[name]
Entry(name) == IF PrefixedEntry(name) # None THEN PrefixedEntry(name) ELSE BareEntry(name)
UnsetBoth(name) == PrefixedEntry(name) = None /\ BareEntry(name) = None

VendorSpellings == { s_vendor, <<"V","e","n","d","o","r">> }
PkgConfigSpellings == { s_pkg_config, s_pkgconfig, <<"P","K","G","C","O","N","F">> }
ExplicitSpellings == { s_explicit, <<"E","X","P","L","I","C","I","T">> }
UnknownSourceSpellings ==
    { << >>, <<"s","y","s","t","e","m">>, <<"p","k","g","_","c","o","n","f","i","g">> }
PregeneratedSpellings == { s_pregenerated, <<"P","r","e","G","e","n","e","r","a","t","e","d">> }
BindgenSpellings == { s_bindgen, <<"B","I","N","D","G","E","N">> }
UnknownBindingSpellings == { << >>, <<"n","o","n","e">> }

LinesOf(kind) == SelectSeq(stdout, LAMBDA l : l[1] = kind)
LinkSearch == LinesOf("cargo:rustc-link-search=native")
LinkLib == LinesOf("cargo:rustc-link-lib=static")
Directives == SelectSeq(stdout, LAMBDA l : l[1] # "info")
Count(op) == Len(SelectSeq(calls, LAMBDA c : c = op))

UnknownSourceMessage ==
    "Unknown value of TURBOJPEG_SOURCE, supported values are: 'vendor', 'pkg-config', 'explicit'"
UnknownBindingMessage ==
    "Unknown value of TURBOJPEG_BINDING, supported values are: 'pregenerated', 'bindgen'"
LibDirMessage == "TURBOJPEG_SOURCE is set to 'explicit', but TURBOJPEG_LIB_DIR is not set"
IncludeDirMessage == "TURBOJPEG_SOURCE is set to 'explicit', but TURBOJPEG_INCLUDE_DIR is not set"

C2_UnknownSelectorFails ==
    /\ (env_name = TURBOJPEG_SOURCE /\ Entry(TURBOJPEG_SOURCE) \in Opt(UnknownSourceSpellings) \ {None}) =>
          /\ exit = "error"
          /\ error = UnknownSourceMessage
          /\ lib_strategy = "none"
          /\ library = None
          /\ calls = << >>
          /\ stdout = << <<"cargo:rerun-if-changed", "build.rs">> >>
    /\ (env_name = TURBOJPEG_BINDING /\ Entry(TURBOJPEG_BINDING) \in Opt(UnknownBindingSpellings) \ {None}) =>
          /\ exit = "error"
          /\ error = UnknownBindingMessage
          /\ bind_strategy = "none"
          /\ out_file = "absent"
          /\ Count("copy") = 0
          /\ Count("bindgen") = 0

C2_Witness ==
    /\ env_name = TURBOJPEG_BINDING
    /\ PrefixedEntry(TURBOJPEG_BINDING) = None
    /\ BareEntry(TURBOJPEG_BINDING) = Some(<< >>)
    /\ features = AllFeatures
    /\ exit = "error"
    /\ error = UnknownBindingMessage

\* C3: env returns the value of the target-prefixed variable whenever that
\* variable is set, the bare variable's value only when the prefixed one is
\* unset, and nothing only when both are unset; with the prefixed
\* TURBOJPEG_SOURCE=explicit and the bare one =vendor, find_explicit is called.
C3_PrefixedWins ==
    /\ env_name # << >> => env_value = Entry(env_name)
    /\ ( /\ env_name = TURBOJPEG_SOURCE
         /\ PrefixedEntry(TURBOJPEG_SOURCE) = Some(s_explicit)
         /\ BareEntry(TURBOJPEG_SOURCE) = Some(s_vendor) ) => lib_strategy = "find_explicit"

C3_Witness ==
    /\ TARGET = TargetLinux
    /\ env_name = TURBOJPEG_SOURCE
    /\ environ[PrefixLinux \o <<"_">> \o TURBOJPEG_SOURCE] = Some(s_explicit)
    /\ environ[TURBOJPEG_SOURCE] = Some(s_vendor)
    /\ pc = "find_explicit"

LibNames == {TURBOJPEG_LIB_DIR, TURBOJPEG_LIB_PATH}
IncludeNames == {TURBOJPEG_INCLUDE_DIR, TURBOJPEG_INCLUDE_PATH}

\* A step of find_explicit that looks a directory up.
C4_Step ==
    \* the library directory is the configured one, the alias being
    \* consulted only after the primary name was found unset in both forms
    /\ env_name' \in LibNames => lib_dir' = (Entry(env_name))'
    /\ env_name' = TURBOJPEG_LIB_PATH =>
          env_name = TURBOJPEG_LIB_DIR /\ UnsetBoth(TURBOJPEG_LIB_DIR)
    /\ env_name' = TURBOJPEG_INCLUDE_PATH =>
          env_name = TURBOJPEG_INCLUDE_DIR /\ UnsetBoth(TURBOJPEG_INCLUDE_DIR)
    /\ env_name' \in IncludeNames =>
          /\ lib_strategy = "find_explicit"
          /\ IsSome(lib_dir) /\ lib_dir' = lib_dir
          /\ env_name = TURBOJPEG_INCLUDE_DIR \/ lib_dir = Entry(env_name)
    \* with both directories configured the strategy succeeds
    /\ (env_name' \in IncludeNames /\ IsSome((Entry(env_name))')) =>
          /\ library' = Some([ include_paths |-> << Unwrap((Entry(env_name))') >>,
                               defines |-> << >> ])
          /\ LinkSearch = << >> /\ LinkLib = << >>
          /\ LinkSearch' = << <<"cargo:rustc-link-search=native", Unwrap(lib_dir)>> >>
          /\ LinkLib' = << <<"cargo:rustc-link-lib=static", "turbojpeg">> >>
          /\ pc' = "generate_or_copy_bindings"
          /\ exit' = "running"

\* C4: with a library directory L and an include directory I configured
\* (legacy alias consulted only when the primary name is unset in both
\* forms), find_explicit returns include paths [I] and no defines and prints
\* exactly one link-search directive for L and one static-link directive.
C4_ExplicitSuccess == [][C4_Step]_vars

C4_Witness ==
    /\ lib_strategy = "find_explicit"
    /\ env_name = TURBOJPEG_INCLUDE_PATH
    /\ PrefixedEntry(TURBOJPEG_INCLUDE_PATH) = Some(<<"/","y">>)
    /\ BareEntry(TURBOJPEG_INCLUDE_PATH) = Some(<<"/","x">>)
    /\ library = Some([include_paths |-> << <<"/","y">> >>, defines |-> << >>])
    /\ LinkSearch = << <<"cargo:rustc-link-search=native", <<"/","x">> >> >>
    /\ Len(LinkLib) = 1

\* A step of find_explicit whose lookup of a legacy alias finds it unset.
C5_Step ==
    /\ (env_name' = TURBOJPEG_LIB_PATH /\ (UnsetBoth(TURBOJPEG_LIB_PATH))') =>
          exit' = "error" /\ error' = LibDirMessage
    /\ (env_name' = TURBOJPEG_INCLUDE_PATH /\ (UnsetBoth(TURBOJPEG_INCLUDE_PATH))') =>
          exit' = "error" /\ error' = IncludeDirMessage
    /\ (lib_strategy' = "find_explicit" /\ IsSome(library') /\ library = None) =>
          /\ env_name' \in IncludeNames /\ IsSome((Entry(env_name))')
          /\ IsSome(lib_dir)
    /\ error' \in {LibDirMessage, IncludeDirMessage} =>
          /\ lib_strategy' = "find_explicit"
          /\ env_name' = IF error' = LibDirMessage THEN TURBOJPEG_LIB_PATH
                                                    ELSE TURBOJPEG_INCLUDE_PATH
          /\ (UnsetBoth(env_name))'
          /\ exit' = "error"
          /\ LinkSearch' = << >> /\ LinkLib' = << >>
          /\ library' = None
          /\ bind_strategy' = "none" /\ out_file' = "absent" /\ calls' = << >>

\* C5: find_explicit fails when the library directory or the include
\* directory has neither its primary name nor its alias set, the error naming
\* the missing variable (the library directory first); a failing run has
\* printed no link-search and no static-link directive and runs no binding
\* stage.
C5_ExplicitFailure == [][C4_Step /\ C5_Step]_vars

C5_Witness ==
    /\ error = IncludeDirMessage
    /\ exit = "error"
    /\ IsSome(lib_dir)
    /\ env_name = TURBOJPEG_INCLUDE_PATH

BindingStarted ==
    \/ pc \in {"generate_or_copy_bindings", "copy_pregenerated_bindings", "generate_bindings"}
    \/ env_name = TURBOJPEG_BINDING
    \/ bind_strategy # "none"
    \/ out_file # "absent"
    \/ Count("copy") + Count("bindgen") > 0

C7_Step ==
    /\ exit = "running"
    /\ BindingStarted' => IsSome(library') /\ lib_strategy' # "none"
    /\ (exit' # "running" /\ library' = None) =>
          ~BindingStarted' /\ exit' \in {"error", "panic"} /\ Directives' = Directives
    /\ exit' = "ok" => IsSome(library') /\ out_file' # "absent" /\ bind_strategy' # "none"
    /\ exit' # "running" <=> pc' = "exit"

\* C7: the binding stage starts only after the library stage returned a
\* Library; a failed library stage ends the run with no binding selector
\* read, no binding file and no further directive printed; no step follows the
\* end of a run, and a run ends in success only when both stages succeeded.
C7_FailuresAreTerminal == [][C7_Step]_vars

C7_Witness ==
    /\ exit = "error"
    /\ library = None
    /\ lib_strategy = "find_pkg_config"
    /\ calls = <<"pkg-config">>

LibraryOps == {"pkg-config", "cmake"}
BindingOps == {"copy", "bindgen"}

\* C8: a run performs at most one probe, at most one cmake build and at
\* most one of copy and generate, never both the probe and the build, the
\* library operation first; the binding file is written by at most one
\* binding strategy, and by exactly one when the run succeeds.
C8_AtMostOneOfEach ==
    /\ \/ calls = << >>
       \/ Len(calls) = 1 /\ calls[1] \in LibraryOps \cup BindingOps
       \/ Len(calls) = 2 /\ calls[1] \in LibraryOps /\ calls[2] \in BindingOps
    /\ out_file = "pregenerated" => bind_strategy = "copy_pregenerated_bindings" /\ Count("copy") = 1
    /\ out_file = "generated" => bind_strategy = "generate_bindings" /\ Count("bindgen") = 1
    /\ exit = "ok" => out_file \in {"pregenerated", "generated"}

C8_Witness ==
    /\ calls = <<"pkg-config", "bindgen">>
    /\ out_file = "generated"
    /\ exit = "ok"

\* C9: TURBOJPEG_BINDING set to pregenerated or bindgen (any case) calls the
\* copy or the generate strategy whatever the features; unset in both forms,
\* generate is called when 'bindgen' is enabled and copy otherwise.
C9_BindingSelection ==
    env_name = TURBOJPEG_BINDING =>
        bind_strategy =
            IF Entry(TURBOJPEG_BINDING) \in Opt(PregeneratedSpellings) \ {None}
                THEN "copy_pregenerated_bindings"
            ELSE IF Entry(TURBOJPEG_BINDING) \in Opt(BindgenSpellings) \ {None}
                THEN "generate_bindings"
            ELSE IF Entry(TURBOJPEG_BINDING) # None THEN "none"
            ELSE IF "bindgen" \in features THEN "generate_bindings"
            ELSE "copy_pregenerated_bindings"

C9_Witness ==
    /\ env_name = TURBOJPEG_BINDING
    /\ Entry(TURBOJPEG_BINDING) = Some(<<"B","I","N","D","G","E","N">>)
    /\ features = {}
    /\ lib_strategy = "find_explicit"
    /\ bind_strategy = "generate_bindings"

TruthySpellings ==
    { << >>, <<"1">>, <<"y","e","s">>, <<"t","r","u","e">>, <<"o","n">>,
      <<"T","R","U","E">>, <<"O","N">>, <<"Y","e","s">> }
FalsySpellings ==
    { <<"0">>, <<"n","o">>, <<"f","a","l","s","e">>, <<"o","f","f">>,
      <<"O","f","f">>, <<"F","a","l","s","E">>, <<"N","O">> }

\* C10: env_bool yields true on "", 1, yes, true, on and false on 0, no,
\* false, off, compared ignoring ASCII case; it fails with an error naming
\* the variable on any other value, and yields no value, without error, when
\* the variable is unset in both forms.
C10_EnvBool ==
    IsSome(bool_result) =>
        LET r == Unwrap(bool_result)
            v == Entry(env_name)
        IN  IF v = None THEN r.ok /\ r.value = None
            ELSE IF Unwrap(v) \in TruthySpellings THEN r.ok /\ r.value = Some(TRUE)
            ELSE IF Unwrap(v) \in FalsySpellings THEN r.ok /\ r.value = Some(FALSE)
            ELSE ~r.ok /\ r.err[2] = env_name /\ r.err[3] = Unwrap(v) /\ exit = "error"

C10_Witness ==
    /\ IsSome(bool_result)
    /\ PrefixedEntry(env_name) = Some(<<"O","N">>)
    /\ BareEntry(env_name) = Some(<<"m","a","y","b","e">>)
    /\ Unwrap(bool_result).value = Some(TRUE)

====
